---- MODULE Spec2Model ----
(***************************************************************************)
(* soong_zip: the parallel zip writer of cmd/soong_zip/soong_zip.go.       *)
(*                                                                         *)
(* One planner goroutine walks the input files and submits one promise per *)
(* entry on z.writeOps; CRC tasks, block workers and whole-file workers    *)
(* fill the promises; the single writer loop of zipWriter.write consumes   *)
(* them in order.  Strings are sequences of one-character strings, byte    *)
(* counts are exact, a payload is named by the source region it was made   *)
(* from.                                                                   *)
(***************************************************************************)
EXTENDS Integers, Sequences, FiniteSets, TLC

(***************************************************************************)
(* Program constants.                                                      *)
(***************************************************************************)
parallelBlockSize == 1048576

minParallelFileSize == parallelBlockSize * 6

windowSize == 32768

writeOpsCap == 1000

(***************************************************************************)
(* Bounds of the model.                                                    *)
(***************************************************************************)
MaxFiles == 2

MaxJobs == 2

Nil == 0

(***************************************************************************)
(* Strings and paths.                                                      *)
(***************************************************************************)
EmptyStr == << >>

Slash == "/"

\* the index of the last separator of s, 0 when it has none
LastSlash(s) ==
    LET idx == {i \in 1..Len(s) : s[i] = Slash}
    IN  IF idx = {} THEN 0 ELSE CHOOSE i \in idx : \A j \in idx : j <= i

\* filepath.Split: the path up to and including its last separator, and the
\* rest; a path that ends with a separator is all directory
Split(path) ==
    LET i == LastSlash(path)
    IN  <<SubSeq(path, 1, i), SubSeq(path, i + 1, Len(path))>>

HasSuffixSlash(s) == Len(s) > 0 /\ s[Len(s)] = Slash

DotSlash == <<".", "/">>

\* the loop of writeDirectory: the directory names it submits, in order, and
\* the createdDirs it leaves
RECURSIVE writeDirectoryLoop(_, _, _)
writeDirectoryLoop(dir, created, submitted) ==
    IF dir # EmptyStr /\ dir # DotSlash /\ dir \notin created
    THEN writeDirectoryLoop(Split(dir)[1], created \cup {dir},
                            Append(submitted, dir))
    ELSE [created |-> created, submitted |-> submitted]

writeDirectory(dir, created) ==
    LET d == IF dir # EmptyStr /\ ~HasSuffixSlash(dir)
             THEN Append(dir, Slash) ELSE dir
    IN  writeDirectoryLoop(d, created, << >>)

(***************************************************************************)
(* Input files.  A file is what os.Lstat and the reads of it give: kind   *)
(* ("reg" a regular file, "symlink", "dir", "other" anything for which     *)
(* writeFile returns an error), relative name, size (of a symlink: the     *)
(* length of its target), and the change of length deflate makes to a      *)
(* region of it (gain).                                                    *)
(***************************************************************************)
File(kind, rel, size, gain) ==
    [kind |-> kind, rel |-> rel, size |-> size, gain |-> gain]

FileTypes ==
    { File("reg", <<"a", "/", "s">>, 100, -40),
      File("reg", <<"a", "/", "r">>, 3, 0),
      File("reg", <<"e">>, 0, 1),
      File("reg", <<"g">>, minParallelFileSize + 1, -1000),
      File("symlink", <<"a", "/", "l">>, 4, 0),
      File("dir", <<"a">>, 0, 0),
      File("other", <<"p">>, 0, 0) }

InputLists == UNION { [1..n -> FileTypes] : n \in 1..MaxFiles }

\* the budgets of buffered bytes the rate limiter is run with
Budgets == {0, 2 * parallelBlockSize}

\* the length of the deflate output of an n-byte region of file f: at least
\* the one byte of the sync-flush or end-of-stream marker
DeflLen(f, n) == IF n + f.gain < 1 THEN 1 ELSE n + f.gain

VARIABLES
    files,          \* the input list (files, listFiles)
    parallelJobs,   \* -j
    directories,    \* -d, z.directories
    memory,         \* the byte budget of the rate limiter
    faulty,         \* whether reads of the inputs and writes of the
                    \* output can fail with an I/O error
    planner,        \* the goroutine of write: where it is (pc), the input
                    \* it is at (i), and in writeFile's loop the promise
                    \* (ent), the payload channel (blk) and start
    createdDirs,    \* z.createdDirs
    writeOps,       \* z.writeOps: the promises queued, oldest first
    writeOpsClosed, \* close(z.writeOps)
    ents,           \* every promise made, in submission order
    blks,           \* every payload channel made (resultChan, futureReader)
    active,         \* rate limiter: active_workers
    pending,        \* rate limiter: pending_bytes
    rlStopped,      \* rate limiter: Stop called
    errorsClosed,   \* close(z.errors)
    currentWriteOpChan, currentWriter, currentReaders, currentReader, done,
    err,            \* the err of write
    wpc,            \* where the writer is in write
    archive,        \* what zipw has been asked to write, in order
    outExists,      \* the output file exists
    ioFailed,       \* a read of an input or a write of the output has
                    \* returned an error
    proc            \* the process: "running", "exit0", "exit1", "crashed"

cfgVars == <<files, parallelJobs, directories, memory, faulty>>

plVars == <<planner, createdDirs, writeOps, writeOpsClosed>>

rlVars == <<active, pending, rlStopped>>

wrVars == <<currentWriteOpChan, currentWriter, currentReaders, currentReader,
            done, err, wpc, archive>>

vars == <<files, parallelJobs, directories, memory, faulty, planner,
          createdDirs, writeOps, writeOpsClosed, ents, blks, active, pending,
          rlStopped, errorsClosed, currentWriteOpChan, currentWriter,
          currentReaders, currentReader, done, err, wpc, archive, outExists,
          ioFailed, proc>>

Init ==
    /\ files \in InputLists
    /\ parallelJobs \in 1..MaxJobs
    /\ directories = TRUE
    /\ memory \in Budgets
    /\ faulty \in BOOLEAN
    /\ planner = [pc |-> "writeFile", i |-> 1, ent |-> Nil, blk |-> Nil,
                 start |-> 0]
    /\ createdDirs = {}
    /\ writeOps = << >>
    /\ writeOpsClosed = FALSE
    /\ ents = << >>
    /\ blks = << >>
    /\ active = 0
    /\ pending = 0
    /\ rlStopped = FALSE
    /\ errorsClosed = FALSE
    /\ currentWriteOpChan = Nil
    /\ currentWriter = Nil
    /\ currentReaders = Nil
    /\ currentReader = Nil
    /\ done = FALSE
    /\ err = FALSE
    /\ wpc = "select"
    /\ archive = << >>
    /\ outExists = TRUE
    /\ ioFailed = FALSE
    /\ proc = "running"

Running == proc = "running"

(***************************************************************************)
(* Promises and payload channels.                                          *)
(*                                                                         *)
(* An entry is one promise: the channel sent on z.writeOps (hdr is what it *)
(* holds: "pending" nothing yet, "ready" the zipEntry, "taken" received),  *)
(* the zipEntry's header fields, its futureReaders channel (readers: "nil" *)
(* none, "open", "closed"; fr: the payload channels buffered in it), the   *)
(* state of the task that fills it, and the file handle it reads.          *)
(* A block is one payload channel with the worker that fills it.           *)
(***************************************************************************)
NewEntry(name, kind, src) ==
    [name |-> name, kind |-> kind, src |-> src, hdr |-> "pending",
     method |-> "Deflate", crc |-> FALSE, usize |-> 0, readers |-> "nil",
     fr |-> << >>, task |-> "none", wg |-> 0, fopen |-> FALSE]

\* writeDirectory's entry: a header with a name only (method Store), sent on
\* its channel at once, no futureReaders
DirEntry(name) ==
    [NewEntry(name, "dir", Nil) EXCEPT !.hdr = "ready", !.method = "Store"]

DirEntries(subm) == [k \in 1..Len(subm) |-> DirEntry(subm[k])]

Ids(from, n) == [k \in 1..n |-> from + k]

NewBlock(e, start, len, last) ==
    [ent |-> e, start |-> start, len |-> len, last |-> last, dict |-> << >>,
     st |-> "chan", buf |-> [kind |-> "none", n |-> 0], end |-> "none",
     credited |-> FALSE]

\* a flag that is not set on a block that ends at the end of the file
LastBlockLe(start, fileSize) == ~(start + parallelBlockSize <= fileSize)

\* last := !(start+parallelBlockSize < fileSize)
LastBlock(start, fileSize) == ~(start + parallelBlockSize < fileSize)

\* how compressBlock ends the deflate output of a block: fw.Close writes
\* the end-of-stream marker, fw.Flush a sync flush
Marker(last) == IF last THEN "close" ELSE "flush"

\* the bytes a SectionReader(r, start, parallelBlockSize) of a file of the
\* given size yields
SectionLen(size, start) ==
    IF start + parallelBlockSize < size THEN parallelBlockSize
    ELSE size - start

\* what an I/O operation can return: ok (TRUE), or an error (FALSE)
Outcomes == IF faulty THEN BOOLEAN ELSE {TRUE}

\* the outcome of an operation that is made only when cond holds
OutcomesIf(cond) == IF cond THEN Outcomes ELSE {TRUE}

(***************************************************************************)
(* The rate limiter: worker admission and byte accounting.                 *)
(***************************************************************************)
CanExecute ==
    /\ ~rlStopped
    /\ active < parallelJobs
    /\ (pending = 0 \/ pending <= memory)

\* a writeFile that does not wait for the rate limiter
RequestExecutionSkipped == TRUE

\* z.rateLimit.RequestExecution() in writeFile: the caller goes on once the
\* rate limiter admits it
RequestExecution == CanExecute

(***************************************************************************)
(* The planner: the goroutine of write that calls writeFile for each input *)
(* and closes z.writeOps when it returns.                                  *)
(***************************************************************************)
Advance ==
    [pc |-> IF planner.i + 1 > Len(files) THEN "closing" ELSE "writeFile",
     i |-> planner.i + 1, ent |-> Nil, blk |-> Nil, start |-> 0]

AtFile == Running /\ planner.pc = "writeFile"

\* a writeDirectory that does not look at z.createdDirs
ParentDirsAgain(rel) ==
    IF directories THEN writeDirectory(Split(rel)[1], {})
    ELSE [created |-> createdDirs, submitted |-> << >>]

\* the directory entries writeFile and writeSymlink submit before the entry
\* of rel, when z.directories
ParentDirs(rel) ==
    IF directories THEN writeDirectory(Split(rel)[1], createdDirs)
    ELSE [created |-> createdDirs, submitted |-> << >>]

\* os.Lstat fails, or the file is no directory, symlink or regular file:
\* writeFile returns the error and the goroutine sends it on z.errors
writeFileOther ==
    /\ AtFile
    /\ files[planner.i].kind = "other"
    /\ planner' = [planner EXCEPT !.pc = "senderr"]
    /\ UNCHANGED ioFailed
    /\ UNCHANGED <<cfgVars, createdDirs, writeOps, writeOpsClosed, ents, blks,
                   rlVars, errorsClosed, wrVars, outExists, proc>>

writeFileDir ==
    /\ AtFile
    /\ files[planner.i].kind = "dir"
    /\ LET wd == IF directories
                 THEN writeDirectory(files[planner.i].rel, createdDirs)
                 ELSE [created |-> createdDirs, submitted |-> << >>]
           n == Len(wd.submitted)
       IN  /\ Len(writeOps) + n <= writeOpsCap
           /\ createdDirs' = wd.created
           /\ ents' = ents \o DirEntries(wd.submitted)
           /\ writeOps' = writeOps \o Ids(Len(ents), n)
    /\ planner' = Advance
    /\ UNCHANGED ioFailed
    /\ UNCHANGED <<cfgVars, writeOpsClosed, blks, rlVars, errorsClosed, wrVars,
                   outExists, proc>>

\* a writeSymlink that does not credit the target
SymlinkNoCredit(f) == 0

\* z.rateLimit.Release(-len(dest)): the bytes writeSymlink adds to the
\* pending bytes
SymlinkCredit(f) == f.size

\* writeSymlink up to Release(-len(dest)): the parent directories, then
\* os.Readlink; the entry carries one payload channel already holding the
\* link target, whose length is added to the pending bytes; the promise is
\* not yet on z.writeOps
writeSymlink ==
    /\ AtFile
    /\ files[planner.i].kind = "symlink"
    /\ LET f == files[planner.i]
           wd == ParentDirs(f.rel)
           n == Len(wd.submitted)
           e == Len(ents) + n + 1
           b == Len(blks) + 1
       IN  \E ok \in Outcomes :
             /\ Len(writeOps) + n <= writeOpsCap
             /\ createdDirs' = wd.created
             /\ ioFailed' = (ioFailed \/ ~ok)
             /\ writeOps' = writeOps \o Ids(Len(ents), n)
             /\ IF ok
                THEN /\ ents' = (ents \o DirEntries(wd.submitted)) \o
                          << [NewEntry(f.rel, "symlink", planner.i) EXCEPT
                                !.hdr = "ready", !.method = "Store",
                                !.readers = "closed", !.fr = <<b>>] >>
                     /\ blks' = Append(blks,
                          [NewBlock(e, 0, f.size, TRUE) EXCEPT
                             !.st = "posted",
                             !.buf = [kind |-> "raw", n |-> f.size],
                             !.credited = TRUE])
                     /\ pending' = pending + SymlinkCredit(f)
                     /\ planner' = [planner EXCEPT !.pc = "symsend",
                                                    !.ent = e]
                ELSE /\ ents' = ents \o DirEntries(wd.submitted)
                     /\ planner' = [planner EXCEPT !.pc = "senderr"]
                     /\ UNCHANGED <<blks, pending>>
    /\ UNCHANGED <<cfgVars, writeOpsClosed, active, rlStopped, errorsClosed,
                   wrVars, outExists, proc>>

\* writeSymlink: z.writeOps <- ze, the promise of the symlink is queued
writeSymlinkSend ==
    /\ Running
    /\ planner.pc = "symsend"
    /\ Len(writeOps) + 1 <= writeOpsCap
    /\ writeOps' = Append(writeOps, planner.ent)
    /\ planner' = Advance
    /\ UNCHANGED ioFailed
    /\ UNCHANGED <<cfgVars, createdDirs, writeOpsClosed, ents, blks, rlVars,
                   errorsClosed, wrVars, outExists, proc>>

\* writeFile on a regular file, up to RequestExecution: the parent
\* directories, the promise (compressChan) queued, the zipEntry pre-filled
\* with the size (the one a large file's CRC task sends), os.Open
writeFileRegular ==
    /\ AtFile
    /\ files[planner.i].kind = "reg"
    /\ LET f == files[planner.i]
           wd == ParentDirs(f.rel)
           n == Len(wd.submitted)
           e == Len(ents) + n + 1
           kind == IF f.size >= minParallelFileSize THEN "large" ELSE "small"
       IN  \E ok \in Outcomes :
             /\ Len(writeOps) + n + 1 <= writeOpsCap
             /\ createdDirs' = wd.created
             /\ ioFailed' = (ioFailed \/ ~ok)
             /\ ents' = (ents \o DirEntries(wd.submitted)) \o
                  << [NewEntry(f.rel, kind, planner.i) EXCEPT
                        !.usize = IF kind = "large" THEN f.size ELSE 0,
                        !.fopen = ok] >>
             /\ writeOps' = writeOps \o Ids(Len(ents), n + 1)
             /\ planner' = IF ok
                           THEN [planner EXCEPT !.pc = "reqexec", !.ent = e]
                           ELSE [planner EXCEPT !.pc = "senderr"]
    /\ UNCHANGED <<cfgVars, writeOpsClosed, blks, rlVars, errorsClosed, wrVars,
                   outExists, proc>>

\* writeFile from the grant of the file's execution: a small file gets its
\* whole-file worker; a large file gets its CRC task and the payload
\* channel of its first block, and the planner asks for the block's execution
writeFileExecution ==
    /\ Running
    /\ planner.pc = "reqexec"
    /\ RequestExecution
    /\ active' = active + 1
    /\ LET f == files[planner.i]
           e == planner.ent
       IN  IF f.size >= minParallelFileSize
           THEN /\ ents' = [ents EXCEPT ![e].readers = "open",
                                        ![e].fr = <<Len(blks) + 1>>,
                                        ![e].task = "crc",
                                        ![e].wg = 1]
                /\ blks' = Append(blks,
                     NewBlock(e, 0, SectionLen(f.size, 0),
                              LastBlock(0, f.size)))
                /\ planner' = [planner EXCEPT !.pc = "blockexec",
                                               !.blk = Len(blks) + 1]
           ELSE /\ ents' = [ents EXCEPT ![e].task = "crc"]
                /\ planner' = Advance
                /\ UNCHANGED blks
    /\ UNCHANGED ioFailed
    /\ UNCHANGED <<cfgVars, createdDirs, writeOps, writeOpsClosed, pending,
                   rlStopped, errorsClosed, wrVars, outExists, proc>>

\* a dictionary taken from the head of the file
BlockDictHead(start) ==
    IF start >= windowSize THEN <<0, windowSize>> ELSE << >>

\* the dictionary of the block at start: the region of the file read for
\* it, the window before the block
BlockDict(start) ==
    IF start >= windowSize THEN <<start - windowSize, start>> ELSE << >>

\* a loop that stops one block early
MoreBlocksShort(start, fileSize) == start + parallelBlockSize < fileSize

\* the condition of writeFile's loop over the blocks: start < fileSize
MoreBlocks(start, fileSize) == start < fileSize

\* the loop of writeFile from the grant of a block's execution: the
\* dictionary is read (an error of the read is assigned to err and not
\* looked at), the block worker is started, then either the next block's
\* payload channel is appended or futureReaders is closed and the file's
\* closer is started
writeFileBlock ==
    /\ Running
    /\ planner.pc = "blockexec"
    /\ RequestExecution
    /\ active' = active + 1
    /\ \E ok \in OutcomesIf(BlockDict(planner.start) # << >>) :
       LET f == files[planner.i]
           e == planner.ent
           b == planner.blk
           next == planner.start + parallelBlockSize
           started == [blks EXCEPT ![b].st = "running",
                                   ![b].dict = BlockDict(planner.start)]
       IN
         /\ ioFailed' = (ioFailed \/ ~ok)
         /\ IF MoreBlocks(next, f.size)
            THEN /\ blks' = Append(started,
                      NewBlock(e, next, SectionLen(f.size, next),
                               LastBlock(next, f.size)))
                 /\ ents' = [ents EXCEPT ![e].wg = @ + 1,
                                         ![e].fr = Append(@, Len(blks) + 1)]
                 /\ planner' = [planner EXCEPT !.start = next,
                                                !.blk = Len(blks) + 1]
            ELSE /\ blks' = started
                 /\ ents' = [ents EXCEPT ![e].wg = @ + 1,
                                         ![e].readers = "closed"]
                 /\ planner' = Advance
    /\ UNCHANGED <<cfgVars, createdDirs, writeOps, writeOpsClosed, pending,
                   rlStopped, errorsClosed, wrVars, outExists, proc>>

\* the goroutine returns: the deferred close(z.writeOps)
plannerClose ==
    /\ Running
    /\ planner.pc = "closing"
    /\ writeOpsClosed' = TRUE
    /\ planner' = [planner EXCEPT !.pc = "done"]
    /\ UNCHANGED ioFailed
    /\ UNCHANGED <<cfgVars, createdDirs, writeOps, ents, blks, rlVars,
                   errorsClosed, wrVars, outExists, proc>>

(***************************************************************************)
(* The tasks.  A task that has an error to report waits in "senderr" on    *)
(* its send on the unbuffered z.errors.                                    *)
(***************************************************************************)
EntIds == 1..Len(ents)

BlkIds == 1..Len(blks)

FileOf(e) == files[ents[e].src]

\* crcFile: io.Copy of the whole file into the CRC; on success the CRC is
\* stored in the header
crcFileRead(e) ==
    /\ Running
    /\ ents[e].kind = "large"
    /\ ents[e].task = "crc"
    /\ \E ok \in Outcomes :
         /\ ioFailed' = (ioFailed \/ ~ok)
         /\ ents' = IF ok
                    THEN [ents EXCEPT ![e].crc = TRUE, ![e].task = "computed"]
                    ELSE [ents EXCEPT ![e].task = "senderr"]
    /\ UNCHANGED <<cfgVars, plVars, blks, rlVars, errorsClosed, wrVars,
                   outExists, proc>>

\* a crcFile that sends the zipEntry before the CRC is stored
crcFileSendsEarly(e) == ents[e].task \in {"crc", "computed"}

\* where crcFile sends the zipEntry: after the CRC has been stored
crcFileSends(e) == ents[e].task = "computed"

\* a crcFile that keeps its execution
crcFileNoFinish(a) == a

\* crcFile's deferred exec.Finish(0): the active workers after it
crcFileFinish(a) == a - 1

\* crcFile: the zipEntry is sent on resultChan; the deferred Finish(0) and
\* wg.Done
crcFilePublish(e) ==
    /\ Running
    /\ ents[e].kind = "large"
    /\ crcFileSends(e)
    /\ ents' = [ents EXCEPT ![e].hdr = "ready", ![e].task = "done",
                            ![e].wg = @ - 1]
    /\ active' = crcFileFinish(active)
    /\ UNCHANGED ioFailed
    /\ UNCHANGED <<cfgVars, plVars, blks, pending, rlStopped, errorsClosed,
                   wrVars, outExists, proc>>

\* a worker that sends its buffer before it credits it
compressPartialFileSendsFirst ==
    <<"send", "Finish">>

\* what compressPartialFile does with the buffer compressBlock returned,
\* in order: exec.Finish(result.Len()), then resultChan <- result
compressPartialFileSteps ==
    <<"Finish", "send">>

\* block bk (the buffer held by its worker, or sent) has had the step
StepMade(bk, step) ==
    IF step = "Finish" THEN bk.credited ELSE bk.st # "held"

\* block bk after the step: Finish credits the buffer, the send puts it
\* on the payload channel
StepOn(bk, step) ==
    IF step = "Finish" THEN [bk EXCEPT !.credited = TRUE]
    ELSE [bk EXCEPT !.st = "posted"]

\* the executions a step gives back, and the bytes it adds to the pending
\* bytes for a buffer of n bytes
StepFrees(step) == IF step = "Finish" THEN 1 ELSE 0

StepCredits(step, n) == IF step = "Finish" THEN n ELSE 0

\* compressPartialFile: compressBlock on the block's section and on
\* success the first of the worker's steps, Finish(result.Len()); on an
\* error the send on z.errors (no Finish)
compressPartialFile(b) ==
    /\ Running
    /\ blks[b].st = "running"
    /\ LET f == FileOf(blks[b].ent)
           n == DeflLen(f, blks[b].len)
           step == compressPartialFileSteps[1]
           held == [blks[b] EXCEPT !.st = "held",
                                   !.buf = [kind |-> "defl", n |-> n],
                                   !.end = Marker(blks[b].last)]
       IN  \E ok \in Outcomes :
             /\ ioFailed' = (ioFailed \/ ~ok)
             /\ IF ok
                THEN /\ blks' = [blks EXCEPT ![b] = StepOn(held, step)]
                     /\ active' = active - StepFrees(step)
                     /\ pending' = pending + StepCredits(step, n)
                ELSE /\ blks' = [blks EXCEPT ![b].st = "senderr"]
                     /\ UNCHANGED <<active, pending>>
    /\ UNCHANGED <<cfgVars, plVars, ents, rlStopped, errorsClosed, wrVars,
                   outExists, proc>>

\* compressPartialFile: the second of the worker's steps, the buffer sent
\* on resultChan, and the deferred wg.Done
compressPartialFileSend(b) ==
    /\ Running
    /\ ents[blks[b].ent].kind = "large"
    /\ blks[b].buf.kind # "none"
    /\ LET step == compressPartialFileSteps[2]
       IN  /\ ~StepMade(blks[b], step)
           /\ blks' = [blks EXCEPT ![b] = StepOn(blks[b], step)]
           /\ active' = active - StepFrees(step)
           /\ pending' = pending + StepCredits(step, blks[b].buf.n)
    /\ ents' = [ents EXCEPT ![blks[b].ent].wg = @ - 1]
    /\ UNCHANGED ioFailed
    /\ UNCHANGED <<cfgVars, plVars, rlStopped, errorsClosed, wrVars,
                   outExists, proc>>

\* compressWholeFile: io.Copy of the file into the CRC and the Seek back;
\* on success CRC32 and UncompressedSize64 of the header are set
compressWholeFileCrc(e) ==
    /\ Running
    /\ ents[e].kind = "small"
    /\ ents[e].task = "crc"
    /\ \E ok \in Outcomes :
         /\ ioFailed' = (ioFailed \/ ~ok)
         /\ ents' = IF ok
                    THEN [ents EXCEPT ![e].crc = TRUE,
                                      ![e].usize = FileOf(e).size,
                                      ![e].task = "compress"]
                    ELSE [ents EXCEPT ![e].task = "senderr"]
    /\ UNCHANGED <<cfgVars, plVars, blks, rlVars, errorsClosed, wrVars,
                   outExists, proc>>

\* a fallback that keeps a deflate output as long as the file
StoreFallbackLe(usize, clen) ==
    IF clen <= usize
    THEN [method |-> "Deflate", kind |-> "defl", n |-> clen]
    ELSE [method |-> "Store", kind |-> "raw", n |-> usize]

\* no fallback
StoreFallbackNever(usize, clen) ==
    [method |-> "Deflate", kind |-> "defl", n |-> clen]

\* the method and payload compressWholeFile chooses for a file of usize
\* bytes whose deflate output is clen bytes long
StoreFallback(usize, clen) ==
    IF clen < usize
    THEN [method |-> "Deflate", kind |-> "defl", n |-> clen]
    ELSE [method |-> "Store", kind |-> "raw", n |-> usize]

\* compressWholeFile: compressBlock on the whole file as its last block,
\* the futureReaders channel with its one futureReader, the choice between
\* the deflated and the raw bytes (read again from the file), the bytes
\* sent on futureReader, and Finish.
\* compressBlock's error is not looked at: the worker goes on with
\* compressed = nil ("nilbuf").
compressWholeFileCompress(e) ==
    /\ Running
    /\ ents[e].kind = "small"
    /\ ents[e].task = "compress"
    /\ LET f == FileOf(e)
           b == Len(blks) + 1
           r == StoreFallback(ents[e].usize, DeflLen(f, f.size))
           blk == NewBlock(e, 0, f.size, TRUE)
       IN  \E ok \in Outcomes :
           \E reread \in OutcomesIf(ok /\ r.method = "Store") :
             /\ ioFailed' = (ioFailed \/ ~ok \/ ~reread)
             /\ IF ~ok
                THEN /\ ents' = [ents EXCEPT ![e].task = "nilbuf"]
                     /\ UNCHANGED <<blks, active, pending>>
                ELSE /\ IF r.method = "Deflate" \/ reread
                        THEN /\ ents' = [ents EXCEPT ![e].method = r.method,
                                           ![e].readers = "closed",
                                           ![e].fr = <<b>>,
                                           ![e].task = "send"]
                             /\ blks' = Append(blks,
                                  [blk EXCEPT !.st = "posted",
                                     !.credited = TRUE,
                                     !.buf = [kind |-> r.kind, n |-> r.n],
                                     !.end = IF r.kind = "defl"
                                             THEN Marker(TRUE)
                                             ELSE "none"])
                             /\ active' = active - 1
                             /\ pending' = pending + r.n
                        ELSE /\ ents' = [ents EXCEPT ![e].readers = "closed",
                                           ![e].fr = <<b>>,
                                           ![e].task = "senderr"]
                             /\ blks' = Append(blks, blk)
                             /\ UNCHANGED <<active, pending>>
    /\ UNCHANGED <<cfgVars, plVars, rlStopped, errorsClosed, wrVars,
                   outExists, proc>>

\* compressWholeFile after Finish: the zipEntry sent on compressChan and
\* the deferred r.Close
compressWholeFileSend(e) ==
    /\ Running
    /\ ents[e].kind = "small"
    /\ ents[e].task = "send"
    /\ ents' = [ents EXCEPT ![e].hdr = "ready", ![e].task = "done",
                            ![e].fopen = FALSE]
    /\ UNCHANGED ioFailed
    /\ UNCHANGED <<cfgVars, plVars, blks, rlVars, errorsClosed, wrVars,
                   outExists, proc>>

\* compressWholeFile with compressed = nil: compressed.Len() dereferences
\* the nil buffer, the goroutine panics and the process ends
compressWholeFileNil(e) ==
    /\ Running
    /\ ents[e].task = "nilbuf"
    /\ proc' = "crashed"
    /\ UNCHANGED ioFailed
    /\ UNCHANGED <<cfgVars, plVars, ents, blks, rlVars, errorsClosed, wrVars,
                   outExists>>

\* a closer that does not wait for the tasks
wgWaitSkipped(e) ==
    TRUE

\* wg.Wait() of the closer returns: every task added has called wg.Done
wgWait(e) ==
    ents[e].wg = 0

\* the goroutine writeFile starts after the loop: wg.Wait, f.Close
closeFile(e) ==
    /\ Running
    /\ ents[e].kind = "large"
    /\ ents[e].readers = "closed"
    /\ wgWait(e)
    /\ ents[e].fopen
    /\ ents' = [ents EXCEPT ![e].fopen = FALSE]
    /\ UNCHANGED ioFailed
    /\ UNCHANGED <<cfgVars, plVars, blks, rlVars, errorsClosed, wrVars,
                   outExists, proc>>

(***************************************************************************)
(* z.errors.  A receive takes the error of one waiting sender, which then  *)
(* runs to its end: the planner to its deferred close(z.writeOps), a CRC   *)
(* task to its deferred Finish(0) and wg.Done, a block worker to wg.Done,  *)
(* a whole-file worker to r.Close.  A send on the closed channel panics.   *)
(***************************************************************************)
Senders ==
    (IF planner.pc = "senderr" THEN {<<"planner", 0>>} ELSE {})
    \cup {<<"ent", e>> : e \in {x \in EntIds : ents[x].task = "senderr"}}
    \cup {<<"blk", b>> : b \in {x \in BlkIds : blks[x].st = "senderr"}}

\* the state left by sender s once its error has been received
ErrorTaken(s) ==
    /\ planner' = IF s[1] = "planner"
                  THEN [planner EXCEPT !.pc = "failed"] ELSE planner
    /\ writeOpsClosed' = (writeOpsClosed \/ s[1] = "planner")
    /\ ents' = IF s[1] = "ent"
               THEN IF ents[s[2]].kind = "large"
                    THEN [ents EXCEPT ![s[2]].task = "failed",
                                      ![s[2]].wg = @ - 1]
                    ELSE [ents EXCEPT ![s[2]].task = "failed",
                                      ![s[2]].fopen = FALSE]
               ELSE IF s[1] = "blk"
                    THEN [ents EXCEPT ![blks[s[2]].ent].wg = @ - 1]
                    ELSE ents
    /\ blks' = IF s[1] = "blk" THEN [blks EXCEPT ![s[2]].st = "dead"]
               ELSE blks
    /\ active' = IF s[1] = "ent" /\ ents[s[2]].kind = "large"
                 THEN active - 1 ELSE active

\* a task's send on z.errors after close(z.errors): the goroutine panics
\* and the process ends
sendOnClosed ==
    /\ Running
    /\ errorsClosed
    /\ Senders # {}
    /\ proc' = "crashed"
    /\ UNCHANGED ioFailed
    /\ UNCHANGED <<cfgVars, plVars, ents, blks, rlVars, errorsClosed, wrVars,
                   outExists>>

(***************************************************************************)
(* The writer: the loop of write, its last select, its deferred calls and  *)
(* the exit of main.                                                       *)
(***************************************************************************)
Event(op, e, b) ==
    [op |-> op, e |-> e, b |-> b,
     method |-> IF op = "header" THEN ents[e].method ELSE "",
     crc |-> IF op = "header" THEN ents[e].crc ELSE FALSE,
     usize |-> IF op = "header" THEN ents[e].usize ELSE 0]

\* a loop that takes the next promise while an entry's payload channels
\* are still being read
SelectableNoReaders ==
    (IF currentReader # Nil THEN {}
     ELSE IF currentReaders # Nil THEN {"readers"} ELSE {})
    \cup (IF currentWriteOpChan # Nil THEN {"writeOp"} ELSE {"writeOps"})

\* a loop that takes the next payload channel while one is being read
SelectableNoReader ==
    IF currentReaders # Nil THEN {"readers"}
    ELSE IF currentWriteOpChan # Nil THEN {"writeOp"}
    ELSE {"writeOps"}

\* a loop that receives from every channel it holds
SelectableAll ==
    (IF currentReaders # Nil THEN {"readers"} ELSE {})
    \cup (IF currentWriteOpChan # Nil THEN {"writeOp"} ELSE {"writeOps"})

\* the channels the select of the loop receives from, besides z.errors:
\* the if / else-if chain at the top of the loop
Selectable ==
    IF currentReader # Nil THEN {}
    ELSE IF currentReaders # Nil THEN {"readers"}
    ELSE IF currentWriteOpChan # Nil THEN {"writeOp"}
    ELSE {"writeOps"}

\* whether Close of the sink of entry e writes to the output: the writer
\* of CreateCompressedHeader does, the nopCloser of a Store entry does not
CloseWrites(e) == ents[e].method = "Deflate"

InLoop == Running /\ wpc = "select" /\ ~done

\* case writeOp, ok := <-writeOpsChan, a promise received
selectWriteOps ==
    /\ InLoop
    /\ "writeOps" \in Selectable
    /\ writeOps # << >>
    /\ currentWriteOpChan' = Head(writeOps)
    /\ writeOps' = Tail(writeOps)
    /\ UNCHANGED ioFailed
    /\ UNCHANGED <<cfgVars, planner, createdDirs, writeOpsClosed, ents, blks,
                   rlVars, errorsClosed, currentWriter, currentReaders,
                   currentReader, done, err, wpc, archive, outExists, proc>>

\* case writeOp, ok := <-writeOpsChan, the channel closed and empty
selectWriteOpsClosed ==
    /\ InLoop
    /\ "writeOps" \in Selectable
    /\ writeOps = << >>
    /\ writeOpsClosed
    /\ done' = TRUE
    /\ currentWriteOpChan' = Nil
    /\ wpc' = "final"
    /\ UNCHANGED ioFailed
    /\ UNCHANGED <<cfgVars, plVars, ents, blks, rlVars, errorsClosed,
                   currentWriter, currentReaders, currentReader, err, archive,
                   outExists, proc>>

\* the sink of an entry stays open after its header only while payload
\* channels are to come (the variant never closes a sink at once)
ClosesAtOnceNever(e) ==
    FALSE

\* if op.futureReaders == nil: the sink just created is closed at once
ClosesAtOnce(e) ==
    ents[e].readers = "nil"

\* case op := <-writeOpChan: the header is created from op.fh; with no
\* futureReaders the sink is closed at once (what Close returns is not
\* looked at)
selectWriteOp ==
    /\ InLoop
    /\ "writeOp" \in Selectable
    /\ LET e == currentWriteOpChan
       IN  /\ ents[e].hdr = "ready"
           /\ ents' = [ents EXCEPT ![e].hdr = "taken"]
           /\ currentWriteOpChan' = Nil
           /\ \E ok \in Outcomes :
              \E cl \in OutcomesIf(ok /\ ClosesAtOnce(e)
                                     /\ CloseWrites(e)) :
                /\ ioFailed' = (ioFailed \/ ~ok \/ ~cl)
                /\ IF ok
                   THEN /\ currentReaders' =
                             IF ents[e].readers = "nil" THEN Nil ELSE e
                        /\ currentWriter' =
                             IF ClosesAtOnce(e) THEN Nil ELSE e
                        /\ archive' =
                             IF ClosesAtOnce(e)
                             THEN archive \o <<Event("header", e, Nil),
                                               Event("close", e, Nil)>>
                             ELSE Append(archive, Event("header", e, Nil))
                        /\ UNCHANGED <<err, wpc>>
                   ELSE /\ err' = TRUE
                        /\ wpc' = "return"
                        /\ UNCHANGED <<currentReaders, currentWriter, archive>>
    /\ UNCHANGED <<cfgVars, plVars, blks, rlVars, errorsClosed, currentReader,
                   done, outExists, proc>>

\* case futureReader, ok := <-readersChan, a payload channel received
selectReaders ==
    /\ InLoop
    /\ "readers" \in Selectable
    /\ LET e == currentReaders
       IN  /\ ents[e].fr # << >>
           /\ currentReader' = Head(ents[e].fr)
           /\ ents' = [ents EXCEPT ![e].fr = Tail(@)]
    /\ UNCHANGED ioFailed
    /\ UNCHANGED <<cfgVars, plVars, blks, rlVars, errorsClosed,
                   currentWriteOpChan, currentWriter, currentReaders, done,
                   err, wpc, archive, outExists, proc>>

\* case futureReader, ok := <-readersChan, the channel closed and empty:
\* the sink is closed (what Close returns is not looked at)
selectReadersClosed ==
    /\ InLoop
    /\ "readers" \in Selectable
    /\ LET e == currentReaders
       IN  /\ ents[e].fr = << >>
           /\ ents[e].readers = "closed"
           /\ archive' = Append(archive, Event("close", currentWriter, Nil))
    /\ \E cl \in OutcomesIf(CloseWrites(currentWriter)) :
         ioFailed' = (ioFailed \/ ~cl)
    /\ currentWriter' = Nil
    /\ currentReaders' = Nil
    /\ currentReader' = Nil
    /\ UNCHANGED <<cfgVars, plVars, ents, blks, rlVars, errorsClosed,
                   currentWriteOpChan, done, err, wpc, outExists, proc>>

\* case reader := <-currentReader: the buffer is copied to the sink and its
\* length released; a buffer whose copy failed is "taken", not released
selectReader ==
    /\ InLoop
    /\ currentReader # Nil
    /\ LET b == currentReader
       IN  /\ blks[b].st = "posted"
           /\ \E ok \in Outcomes :
                /\ ioFailed' = (ioFailed \/ ~ok)
                /\ blks' = [blks EXCEPT
                             ![b].st = IF ok THEN "copied" ELSE "taken"]
                /\ IF ok
                   THEN /\ archive' =
                             Append(archive, Event("data", currentWriter, b))
                        /\ pending' = pending - blks[b].buf.n
                        /\ currentReader' = Nil
                        /\ UNCHANGED <<err, wpc>>
                   ELSE /\ err' = TRUE
                        /\ wpc' = "return"
                        /\ UNCHANGED <<archive, pending, currentReader>>
    /\ UNCHANGED <<cfgVars, plVars, ents, active, rlStopped, errorsClosed,
                   currentWriteOpChan, currentWriter, currentReaders, done,
                   outExists, proc>>

\* a loop that goes on after it has received an error
ErrorsCaseGoesOn == "select"

\* where the case of z.errors leaves the writer: return err
ErrorsCaseReturns == "return"

\* case err = <-z.errors, in the loop
selectErrors ==
    /\ InLoop
    /\ \E s \in Senders : ErrorTaken(s)
    /\ err' = TRUE
    /\ wpc' = ErrorsCaseReturns
    /\ UNCHANGED ioFailed
    /\ UNCHANGED <<cfgVars, createdDirs, writeOps, pending, rlStopped,
                   errorsClosed, currentWriteOpChan, currentWriter,
                   currentReaders, currentReader, done, archive, outExists,
                   proc>>

\* the select after the loop: case err = <-z.errors when a sender is
\* waiting, else default, where zipw.Close writes the central directory
\* (what it returns is not looked at) and write returns nil
lastSelect ==
    /\ Running
    /\ wpc = "final"
    /\ wpc' = "return"
    /\ IF Senders # {}
       THEN /\ \E s \in Senders : ErrorTaken(s)
            /\ err' = TRUE
            /\ UNCHANGED <<archive, ioFailed>>
       ELSE /\ archive' = Append(archive, Event("central", Nil, Nil))
            /\ \E cl \in Outcomes : ioFailed' = (ioFailed \/ ~cl)
            /\ UNCHANGED <<planner, writeOpsClosed, ents, blks, active, err>>
    /\ UNCHANGED <<cfgVars, createdDirs, writeOps, pending, rlStopped,
                   errorsClosed, currentWriteOpChan, currentWriter,
                   currentReaders, currentReader, done, outExists, proc>>

\* write returns: the deferred rateLimit.Stop and close(z.errors), the last
\* two registered
deferCloseErrors ==
    /\ Running
    /\ wpc = "return"
    /\ rlStopped' = TRUE
    /\ errorsClosed' = TRUE
    /\ wpc' = "deferRemove"
    /\ UNCHANGED ioFailed
    /\ UNCHANGED <<cfgVars, plVars, ents, blks, active, pending,
                   currentWriteOpChan, currentWriter, currentReaders,
                   currentReader, done, err, archive, outExists, proc>>

\* the deferred os.Remove(out) when err is set, the deferred f.Close, the
\* return to main and the exit of the process
deferRemove ==
    /\ Running
    /\ wpc = "deferRemove"
    /\ outExists' = IF err THEN FALSE ELSE outExists
    /\ wpc' = "returned"
    /\ proc' = IF err THEN "exit1" ELSE "exit0"
    /\ UNCHANGED ioFailed
    /\ UNCHANGED <<cfgVars, plVars, ents, blks, rlVars, errorsClosed,
                   currentWriteOpChan, currentWriter, currentReaders,
                   currentReader, done, err, archive>>

Next ==
    \/ writeFileOther
    \/ writeFileDir
    \/ writeSymlink
    \/ writeSymlinkSend
    \/ writeFileRegular
    \/ writeFileExecution
    \/ writeFileBlock
    \/ plannerClose
    \/ \E e \in EntIds : crcFileRead(e)
    \/ \E e \in EntIds : crcFilePublish(e)
    \/ \E b \in BlkIds : compressPartialFile(b)
    \/ \E b \in BlkIds : compressPartialFileSend(b)
    \/ \E e \in EntIds : compressWholeFileCrc(e)
    \/ \E e \in EntIds : compressWholeFileCompress(e)
    \/ \E e \in EntIds : compressWholeFileSend(e)
    \/ \E e \in EntIds : compressWholeFileNil(e)
    \/ \E e \in EntIds : closeFile(e)
    \/ sendOnClosed
    \/ selectWriteOps
    \/ selectWriteOpsClosed
    \/ selectWriteOp
    \/ selectReaders
    \/ selectReadersClosed
    \/ selectReader
    \/ selectErrors
    \/ lastSelect
    \/ deferCloseErrors
    \/ deferRemove

Spec == Init /\ [][Next]_vars

(***************************************************************************)
(* The same program on inputs that are small files, symlinks and           *)
(* directories at paths of several depths, with and without -d, and no I/O *)
(* error: the steps of Next that such inputs take.                         *)
(***************************************************************************)
PathTypes ==
    { File("reg", <<"a", "/", "b", "/", "c", "/", "x">>, 3, 0),
      File("reg", <<"a", "/", "b", "/", "y">>, 3, 0),
      File("reg", <<"z">>, 3, 0),
      File("symlink", <<"a", "/", "b", "/", "l">>, 4, 0),
      File("dir", <<"a", "/", "b">>, 0, 0),
      File("dir", <<"a">>, 0, 0),
      File("dir", <<".">>, 0, 0) }

PathLists == UNION { [1..n -> PathTypes] : n \in 1..MaxFiles }

InitDir ==
    /\ files \in PathLists
    /\ parallelJobs = MaxJobs
    /\ directories \in BOOLEAN
    /\ memory = 0
    /\ faulty = FALSE
    /\ planner = [pc |-> "writeFile", i |-> 1, ent |-> Nil, blk |-> Nil,
                 start |-> 0]
    /\ createdDirs = {}
    /\ writeOps = << >>
    /\ writeOpsClosed = FALSE
    /\ ents = << >>
    /\ blks = << >>
    /\ active = 0
    /\ pending = 0
    /\ rlStopped = FALSE
    /\ errorsClosed = FALSE
    /\ currentWriteOpChan = Nil
    /\ currentWriter = Nil
    /\ currentReaders = Nil
    /\ currentReader = Nil
    /\ done = FALSE
    /\ err = FALSE
    /\ wpc = "select"
    /\ archive = << >>
    /\ outExists = TRUE
    /\ ioFailed = FALSE
    /\ proc = "running"

NextDir ==
    \/ writeFileDir
    \/ writeSymlink
    \/ writeSymlinkSend
    \/ writeFileRegular
    \/ writeFileExecution
    \/ plannerClose
    \/ \E e \in EntIds : compressWholeFileCrc(e)
    \/ \E e \in EntIds : compressWholeFileCompress(e)
    \/ \E e \in EntIds : compressWholeFileSend(e)
    \/ selectWriteOps
    \/ selectWriteOpsClosed
    \/ selectWriteOp
    \/ selectReaders
    \/ selectReadersClosed
    \/ selectReader
    \/ lastSelect
    \/ deferCloseErrors
    \/ deferRemove

SpecDir == InitDir /\ [][NextDir]_vars

(***************************************************************************)
(* The same program on inputs that can all be read, with an output that    *)
(* can be written: the steps of Next such a run takes.  The large files    *)
(* are of a whole number of blocks, of one byte more and of one byte less. *)
(***************************************************************************)
OkTypes ==
    { File("reg", <<"a", "/", "s">>, 100, -40),
      File("reg", <<"e">>, 0, 1),
      File("reg", <<"g">>, minParallelFileSize + 1, -1000),
      File("reg", <<"h">>, minParallelFileSize, -1000),
      File("reg", <<"k">>, minParallelFileSize + parallelBlockSize - 1, 0),
      File("symlink", <<"a", "/", "l">>, 4, 0),
      File("dir", <<"a">>, 0, 0) }

OkLists == UNION { [1..n -> OkTypes] : n \in 1..MaxFiles }

InitOk ==
    /\ files \in OkLists
    /\ parallelJobs \in 1..MaxJobs
    /\ directories = TRUE
    /\ memory \in Budgets
    /\ faulty = FALSE
    /\ planner = [pc |-> "writeFile", i |-> 1, ent |-> Nil, blk |-> Nil,
                 start |-> 0]
    /\ createdDirs = {}
    /\ writeOps = << >>
    /\ writeOpsClosed = FALSE
    /\ ents = << >>
    /\ blks = << >>
    /\ active = 0
    /\ pending = 0
    /\ rlStopped = FALSE
    /\ errorsClosed = FALSE
    /\ currentWriteOpChan = Nil
    /\ currentWriter = Nil
    /\ currentReaders = Nil
    /\ currentReader = Nil
    /\ done = FALSE
    /\ err = FALSE
    /\ wpc = "select"
    /\ archive = << >>
    /\ outExists = TRUE
    /\ ioFailed = FALSE
    /\ proc = "running"

NextOk ==
    \/ writeFileDir
    \/ writeSymlink
    \/ writeSymlinkSend
    \/ writeFileRegular
    \/ writeFileExecution
    \/ writeFileBlock
    \/ plannerClose
    \/ \E e \in EntIds : crcFileRead(e)
    \/ \E e \in EntIds : crcFilePublish(e)
    \/ \E b \in BlkIds : compressPartialFile(b)
    \/ \E b \in BlkIds : compressPartialFileSend(b)
    \/ \E e \in EntIds : compressWholeFileCrc(e)
    \/ \E e \in EntIds : compressWholeFileCompress(e)
    \/ \E e \in EntIds : compressWholeFileSend(e)
    \/ \E e \in EntIds : closeFile(e)
    \/ selectWriteOps
    \/ selectWriteOpsClosed
    \/ selectWriteOp
    \/ selectReaders
    \/ selectReadersClosed
    \/ selectReader
    \/ lastSelect
    \/ deferCloseErrors
    \/ deferRemove

SpecOk == InitOk /\ [][NextOk]_vars

\* every goroutine that can take a step is scheduled in the end: some step
\* is taken as long as one can be
SpecLive == SpecOk /\ WF_vars(NextOk)

(***************************************************************************)
(* What the archive holds.                                                 *)
(***************************************************************************)
Idx == 1..Len(archive)

\* the payload channels of entry e, in the order they were appended to its
\* futureReaders
AppendOrder(e) ==
    SelectSeq([b \in BlkIds |-> b], LAMBDA b : blks[b].ent = e)

\* the payloads copied to the sink of entry e, in the order written
Written(e) ==
    LET d == SelectSeq(archive, LAMBDA ev : ev.op = "data" /\ ev.e = e)
    IN  [k \in 1..Len(d) |-> d[k].b]

IsPrefix(s, t) == Len(s) <= Len(t) /\ \A k \in 1..Len(s) : s[k] = t[k]

RegularEntries == {e \in EntIds : ents[e].kind \in {"small", "large"}}

\* write has left its loop and its last select without an error
Succeeded == wpc \in {"return", "deferRemove", "returned"} /\ ~err

Executing ==
    {<<"blk", b>> : b \in {x \in BlkIds : blks[x].st = "running"}}
    \cup {<<"ent", e>> : e \in {x \in EntIds : ents[x].kind = "small"
                                               /\ ents[x].task = "compress"}}

(***************************************************************************)
(* C1. Archive order is submission order: the events of an entry queued    *)
(* earlier all precede the events of an entry queued later, and when the   *)
(* header of an entry is written the sink of every entry queued before it  *)
(* has been closed.                                                        *)
(***************************************************************************)
ArchiveOrderIsSubmissionOrder ==
    /\ \A i, j \in Idx :
         (i < j /\ archive[i].op # "central" /\ archive[j].op # "central")
           => archive[i].e <= archive[j].e
    /\ \A j \in Idx :
         archive[j].op = "header" =>
           \A e1 \in 1..(archive[j].e - 1) :
             \E i \in 1..(j - 1) :
               archive[i].op = "close" /\ archive[i].e = e1

\* the writer is in the middle of an entry while a later entry is ready
LaterEntryReadyFirst ==
    \E e1, e2 \in RegularEntries :
      /\ e1 < e2
      /\ currentWriter = e1
      /\ ents[e2].hdr = "ready"
      /\ \E i \in Idx : archive[i].op = "header" /\ archive[i].e = e1
      /\ \E b \in BlkIds : blks[b].ent = e1 /\ blks[b].st = "running"

(***************************************************************************)
(* C2. Intra-entry order: the payloads written for an entry are a prefix   *)
(* of its payload channels in the order they were appended, which is the   *)
(* order of ascending source offset; no block is written before the one    *)
(* appended before it.                                                     *)
(***************************************************************************)
BlocksWrittenInAppendOrder ==
    \A e \in EntIds :
      /\ IsPrefix(Written(e), AppendOrder(e))
      /\ \A k \in 1..(Len(Written(e)) - 1) :
           blks[Written(e)[k]].start < blks[Written(e)[k + 1]].start

\* a later block of the entry being written is posted while an earlier one
\* is still being compressed
LaterBlockPostedFirst ==
    \E b1, b2 \in BlkIds :
      /\ b1 < b2
      /\ blks[b1].ent = blks[b2].ent
      /\ currentWriter = blks[b1].ent
      /\ blks[b1].st = "running"
      /\ blks[b2].st = "posted"
      /\ Len(Written(blks[b1].ent)) >= 1

(***************************************************************************)
(* C3. Payload coverage: when write succeeds, the source regions of the    *)
(* payloads written for a regular file, in written order, start at 0,      *)
(* each begin where the one before ends, and end at the file's size.       *)
(***************************************************************************)
Covers(e) ==
    LET w == Written(e)
    IN  /\ Len(w) >= 1
        /\ blks[w[1]].start = 0
        /\ \A k \in 1..(Len(w) - 1) :
             blks[w[k + 1]].start = blks[w[k]].start + blks[w[k]].len
        /\ blks[w[Len(w)]].start + blks[w[Len(w)]].len = FileOf(e).size
        /\ \A k \in 1..Len(w) : blks[w[k]].len >= 0

\* C3: on a run without error every regular file's written payloads cover
\* [0, size) exactly once, in order
PayloadCoversFile == Succeeded => \A e \in RegularEntries : Covers(e)

\* a successful run that wrote a file of each path
BothPathsWritten ==
    /\ Succeeded
    /\ \E e \in EntIds : ents[e].kind = "small"
    /\ \E e \in EntIds : ents[e].kind = "large"

(***************************************************************************)
(* C4. The output file is removed on failure: once write has an error to   *)
(* return and the process has ended, the output file does not exist.       *)
(***************************************************************************)
OutputRemovedOnFailure == (proc # "running" /\ err) => ~outExists

(***************************************************************************)
(* C5. Header after CRC: every header written for a regular file carries   *)
(* the CRC its task has stored and the file's size.                        *)
(***************************************************************************)
HeaderAfterCrc ==
    \A i \in Idx :
      (archive[i].op = "header" /\ archive[i].e \in RegularEntries) =>
        /\ archive[i].crc
        /\ archive[i].usize = FileOf(archive[i].e).size

\* headers written for a file of each path
HeadersOfBothPaths ==
    /\ \E i \in Idx : /\ archive[i].op = "header"
                      /\ ents[archive[i].e].kind = "large"
    /\ \E i \in Idx : /\ archive[i].op = "header"
                      /\ ents[archive[i].e].kind = "small"

(***************************************************************************)
(* C6. Backpressure: the compressBlock calls executing at once are at most *)
(* the execution handles granted and not finished, which are at most       *)
(* parallelJobs.                                                           *)
(***************************************************************************)
CompressorsBounded ==
    /\ Cardinality(Executing) <= active
    /\ active <= parallelJobs

\* as many compressors executing as there are jobs, more than one
AllJobsCompressing ==
    /\ parallelJobs > 1
    /\ Cardinality(Executing) = parallelJobs

(***************************************************************************)
(* C7. Ancestor directories: with -d, when the entry of a file or symlink  *)
(* has been submitted, a directory entry has been submitted before it for  *)
(* every proper ancestor directory of its name.                            *)
(***************************************************************************)
Ancestors(rel) ==
    {SubSeq(rel, 1, i) : i \in {k \in 1..Len(rel) : rel[k] = Slash}}

DirNamesBefore(e) ==
    {ents[d].name : d \in {x \in 1..(e - 1) : ents[x].kind = "dir"}}

\* C7: with -d every proper ancestor directory of a submitted file or
\* symlink has a directory entry submitted before it
AncestorsSubmitted ==
    directories =>
      \A e \in EntIds :
        ents[e].kind # "dir" =>
          Ancestors(ents[e].name) \subseteq DirNamesBefore(e)

(***************************************************************************)
(* C8. Directory entries: with -d no two directory entries submitted have  *)
(* the same name; without -d no directory entry is submitted.              *)
(***************************************************************************)
DirEntriesAtMostOnce ==
    /\ \A d1, d2 \in EntIds :
         (ents[d1].kind = "dir" /\ ents[d2].kind = "dir" /\ d1 # d2)
           => ents[d1].name # ents[d2].name
    /\ ~directories => \A d \in EntIds : ents[d].kind # "dir"

\* with -d, two inputs in one directory and a single entry for it
SharedDirSubmittedOnce ==
    /\ directories
    /\ \E e1, e2 \in EntIds :
         /\ e1 # e2
         /\ ents[e1].kind # "dir" /\ ents[e2].kind # "dir"
         /\ Split(ents[e1].name)[1] = Split(ents[e2].name)[1]
         /\ Cardinality({d \in EntIds : /\ ents[d].kind = "dir"
                                        /\ ents[d].name =
                                             Split(ents[e1].name)[1]}) = 1

(***************************************************************************)
(* C9. Store fallback: the header of a regular file smaller than           *)
(* minParallelFileSize has method Store exactly when the deflate output of *)
(* the file is at least as long as the file, and its payload is then the   *)
(* raw bytes, else the deflate output; the header of a larger file always  *)
(* has method Deflate and deflate payloads.                                *)
(***************************************************************************)
StoreFallbackRule ==
    \A i \in Idx :
      (archive[i].op = "header" /\ archive[i].e \in RegularEntries) =>
        LET e == archive[i].e
            f == FileOf(e)
            stored == archive[i].method = "Store"
        IN  /\ archive[i].method \in {"Store", "Deflate"}
            /\ f.size < minParallelFileSize =>
                 (stored <=> DeflLen(f, f.size) >= f.size)
            /\ f.size >= minParallelFileSize => ~stored
            /\ \A k \in 1..Len(Written(e)) :
                 blks[Written(e)[k]].buf =
                   IF stored THEN [kind |-> "raw", n |-> f.size]
                   ELSE [kind |-> "defl",
                         n |-> DeflLen(f, blks[Written(e)[k]].len)]

\* a stored and a deflated small file, both written
StoredAndDeflatedWritten ==
    \E e1, e2 \in RegularEntries :
      /\ ents[e1].kind = "small" /\ ents[e2].kind = "small"
      /\ ents[e1].method = "Store" /\ ents[e2].method = "Deflate"
      /\ Len(Written(e1)) = 1 /\ Len(Written(e2)) = 1

(***************************************************************************)
(* C10. A zero-length regular file.  As claimed: its header has method     *)
(* Deflate.  As the code has it: its header has method Store and its       *)
(* payload is one block of zero raw bytes.                                 *)
(***************************************************************************)
ZeroLengthEntries == {e \in RegularEntries : FileOf(e).size = 0}

Content(ev) ==
    [op |-> ev.op, e |-> ev.e, method |-> ev.method, usize |-> ev.usize,
     start |-> IF ev.op = "data" THEN blks[ev.b].start ELSE 0,
     len |-> IF ev.op = "data" THEN blks[ev.b].len ELSE 0,
     buf |-> IF ev.op = "data" THEN blks[ev.b].buf
             ELSE [kind |-> "none", n |-> 0]]

Item(op, e, method, usize, start, len, kind, n) ==
    [op |-> op, e |-> e, method |-> method, usize |-> usize, start |-> start,
     len |-> len, buf |-> [kind |-> kind, n |-> n]]

\* the entries of n directories, the first of them entry e
DirItems(e, n) ==
    [k \in 1..(2 * n) |->
       Item(IF k % 2 = 1 THEN "header" ELSE "close", e + ((k - 1) \div 2),
            IF k % 2 = 1 THEN "Store" ELSE "", 0, 0, 0, "none", 0)]

BlockCount(size) == (size + parallelBlockSize - 1) \div parallelBlockSize

\* the entry e of regular file or symlink f, written alone
FileItems(f, e) ==
    IF f.kind = "symlink"
    THEN << Item("header", e, "Store", 0, 0, 0, "none", 0),
            Item("data", e, "", 0, 0, f.size, "raw", f.size),
            Item("close", e, "", 0, 0, 0, "none", 0) >>
    ELSE IF f.size < minParallelFileSize
    THEN LET r == StoreFallback(f.size, DeflLen(f, f.size))
         IN  << Item("header", e, r.method, f.size, 0, 0, "none", 0),
                Item("data", e, "", 0, 0, f.size, r.kind, r.n),
                Item("close", e, "", 0, 0, 0, "none", 0) >>
    ELSE << Item("header", e, "Deflate", f.size, 0, 0, "none", 0) >>
         \o [k \in 1..BlockCount(f.size) |->
               LET st == (k - 1) * parallelBlockSize
                   ln == IF st + parallelBlockSize < f.size
                         THEN parallelBlockSize ELSE f.size - st
               IN  Item("data", e, "", 0, st, ln, "defl", DeflLen(f, ln))]
         \o << Item("close", e, "", 0, 0, 0, "none", 0) >>

\* the archive of the inputs from the i-th on, written one after the other
RECURSIVE ExpectedFrom(_, _, _)
ExpectedFrom(i, created, e) ==
    IF i > Len(files)
    THEN << Item("central", Nil, "", 0, 0, 0, "none", 0) >>
    ELSE LET f == files[i]
             wd == IF ~directories
                   THEN [created |-> created, submitted |-> << >>]
                   ELSE IF f.kind = "dir" THEN writeDirectory(f.rel, created)
                   ELSE writeDirectory(Split(f.rel)[1], created)
             n == Len(wd.submitted)
         IN  IF f.kind = "other" THEN << >>
             ELSE IF f.kind = "dir"
             THEN DirItems(e, n) \o ExpectedFrom(i + 1, wd.created, e + n)
             ELSE DirItems(e, n) \o FileItems(f, e + n)
                  \o ExpectedFrom(i + 1, wd.created, e + n + 1)

Expected == ExpectedFrom(1, {}, 1)

\* C11: what has been written is a prefix of the one archive of the inputs,
\* and all of it once write has succeeded
ArchiveIsFunctionOfInputs ==
    /\ IsPrefix([k \in Idx |-> Content(archive[k])], Expected)
    /\ Succeeded => Len(archive) = Len(Expected)

\* a run without error, in which workers ran side by side, has written a
\* large file and another entry
ParallelRunCompleted ==
    /\ Succeeded
    /\ parallelJobs > 1
    /\ \E e \in EntIds : ents[e].kind = "large"
    /\ \E e \in EntIds : ents[e].kind \in {"small", "symlink"}
    /\ \E i \in Idx : archive[i].op = "central"

(***************************************************************************)
(* C12. Every I/O error fails the batch: once a read of an input or a      *)
(* write of the output has returned an error, the process does not end     *)
(* with success.                                                           *)
(***************************************************************************)
IOErrorFailsBatch == ioFailed => proc # "exit0"

(***************************************************************************)
(* C13. Every compression error fails the batch: no worker, of a block or  *)
(* of a whole file, goes on past a compressBlock call that returned an     *)
(* error with the missing buffer ("nilbuf"); it posts the error instead.   *)
(***************************************************************************)
CompressionErrorPosted ==
    /\ \A e \in EntIds : ents[e].task # "nilbuf"
    /\ \A b \in BlkIds : blks[b].st # "nilbuf"

(***************************************************************************)
(* C14. Termination without deadlock: on inputs without error, for every   *)
(* parallelJobs >= 1 and every byte budget, under fair scheduling write    *)
(* writes every entry and the central directory and the process ends with  *)
(* success.                                                                *)
(***************************************************************************)
AllWritten ==
    /\ proc = "exit0"
    /\ outExists
    /\ Len(archive) = Len(Expected)
    /\ archive[Len(archive)].op = "central"

\* C14: under fair scheduling every run without faults ends with the whole
\* archive written and exit status 0, whatever the jobs and the budget
EventuallyAllWritten == <>AllWritten

\* with one job, the planner waits for the execution of a block while the
\* CRC task of the file holds the only one
BlockWaitsForCrcSlot ==
    /\ parallelJobs = 1
    /\ planner.pc = "blockexec"
    /\ ~CanExecute
    /\ ents[planner.ent].task \in {"crc", "computed"}

(***************************************************************************)
(* C15. Remaining producers complete: no producer is left with an error to *)
(* send on z.errors once the returning writer has closed that channel.     *)
(***************************************************************************)
NoSenderOnClosedErrors == errorsClosed => Senders = {}

(***************************************************************************)
(* C16. Any producer error reaches the writer: once the planner or a       *)
(* worker has an error posted on z.errors (waiting to be received, or      *)
(* received), the writer is not at its last select, the central directory  *)
(* is not written and write does not return success, in whatever state the *)
(* writer was and whether or not z.writeOps has been closed.               *)
(***************************************************************************)
ErrorPosted ==
    \/ Senders # {}
    \/ planner.pc = "failed"
    \/ \E e \in EntIds : ents[e].task = "failed"
    \/ \E b \in BlkIds : blks[b].st = "dead"

\* C16: once a producer has posted an error the writer never writes the
\* central directory and the process never ends with success
PostedErrorStopsWriter ==
    ErrorPosted =>
      /\ wpc # "final"
      /\ \A i \in Idx : archive[i].op # "central"
      /\ ~Succeeded
      /\ proc # "exit0"

\* an error is posted after z.writeOps has been closed, while the writer
\* waits for the bytes of a block
ErrorPostedAfterQueueClosed ==
    /\ Senders # {}
    /\ writeOpsClosed
    /\ currentReader # Nil
    /\ wpc = "select"

(***************************************************************************)
(* C17. Byte accounting balances: as long as write has no error, the       *)
(* pending bytes are exactly the lengths of the buffers credited and not   *)
(* yet copied to the sink, each credited once and released once with that  *)
(* length; they are 0 when write has succeeded.                            *)
(***************************************************************************)
RECURSIVE PostedBytesUpTo(_)
PostedBytesUpTo(b) ==
    IF b = 0 THEN 0
    ELSE PostedBytesUpTo(b - 1)
           + (IF blks[b].credited /\ blks[b].st \in {"held", "posted"}
              THEN blks[b].buf.n ELSE 0)

PostedBytes == PostedBytesUpTo(Len(blks))

\* C17: while write has no error the pending bytes are the bytes of the
\* buffers credited (held by their worker or posted) and not yet copied,
\* and none once write has succeeded
PendingBytesBalance ==
    /\ ~err => pending = PostedBytes
    /\ Succeeded => pending = 0

\* a run without error that credited a symlink target and the buffer of a
\* file has released both
CreditsReleased ==
    /\ Succeeded
    /\ \E e \in EntIds : ents[e].kind = "symlink"
    /\ \E e \in RegularEntries : Len(Written(e)) >= 1
    /\ pending = 0

(***************************************************************************)
(* C18. Block plan of a large file: the blocks made for a file of size S   *)
(* are at offsets 0, parallelBlockSize, 2 * parallelBlockSize, ..., each   *)
(* of at most parallelBlockSize bytes; once the file is planned there are  *)
(* ceil(S / parallelBlockSize) of them; the block with the highest offset  *)
(* and no other has last set, and a compressed block ends with the         *)
(* end-of-stream marker if it is the last and with a sync flush if not.    *)
(***************************************************************************)
LargeEntries == {e \in EntIds : ents[e].kind = "large"}

Compressed(b) == blks[b].st \in {"posted", "copied"}

\* C18: a large file of size S has ceil(S / parallelBlockSize) blocks at
\* consecutive offsets, the one at the highest offset alone last
BlockPlan ==
    \A e \in LargeEntries :
      LET ao == AppendOrder(e)
          count == BlockCount(FileOf(e).size)
      IN  /\ Len(ao) <= count
          /\ ents[e].readers = "closed" => Len(ao) = count
          /\ \A k \in 1..Len(ao) :
               /\ blks[ao[k]].start = (k - 1) * parallelBlockSize
               /\ blks[ao[k]].len >= 1
               /\ blks[ao[k]].len <= parallelBlockSize
               /\ blks[ao[k]].last <=> (k = count)
               /\ Compressed(ao[k]) =>
                    blks[ao[k]].end = IF k = count THEN "close" ELSE "flush"

\* a file of a whole number of blocks is planned, and its last block and
\* another one are compressed
WholeBlocksFilePlanned ==
    \E e \in LargeEntries :
      /\ FileOf(e).size % parallelBlockSize = 0
      /\ ents[e].readers = "closed"
      /\ \E b1, b2 \in BlkIds :
           /\ blks[b1].ent = e /\ blks[b2].ent = e
           /\ Compressed(b1) /\ Compressed(b2)
           /\ blks[b1].last /\ ~blks[b2].last

(***************************************************************************)
(* C19. Dictionary of a block: every block of a large file handed to a     *)
(* block worker has no dictionary exactly if its offset is 0, and else     *)
(* the windowSize bytes [offset - windowSize, offset) of the file.         *)
(***************************************************************************)
Started(b) == blks[b].st # "chan"

\* C19: a started block has no dictionary exactly if its offset is 0, and
\* else the windowSize bytes before its offset
DictionaryIsPrecedingWindow ==
    \A b \in BlkIds :
      (blks[b].ent \in LargeEntries /\ Started(b)) =>
        /\ blks[b].dict = << >> <=> blks[b].start = 0
        /\ blks[b].start > 0 =>
             /\ blks[b].dict = <<blks[b].start - windowSize, blks[b].start>>
             /\ blks[b].dict[2] - blks[b].dict[1] = windowSize
             /\ blks[b].dict[1] >= 0

\* the first block of a file runs without a dictionary next to a later
\* block with one
BlocksWithAndWithoutDictionary ==
    \E b1, b2 \in BlkIds :
      /\ blks[b1].ent = blks[b2].ent
      /\ blks[b1].st = "running" /\ blks[b2].st = "running"
      /\ blks[b1].start = 0 /\ blks[b2].start > 0
      /\ blks[b2].dict # << >>

\* ---------------------------------------------------------------------
\* C20  Sink discipline of the writer
\* ---------------------------------------------------------------------

\* the events of entry e of kind op in the archive
EventsOf(op, e) ==
    {i \in 1..Len(archive) : archive[i].op = op /\ archive[i].e = e}

\* the entries whose sink has been created and not yet closed
OpenSinks ==
    {e \in EntIds : EventsOf("header", e) # {} /\ EventsOf("close", e) = {}}

\* the central directory has been written
CentralWritten ==
    \E i \in 1..Len(archive) : archive[i].op = "central"

\* C20: at most one entry sink is open and it is the writer's current one;
\* while the writer holds a promise taken from the queue no sink is open,
\* so the sink of the previous entry was closed before the promise was
\* taken; the central directory is written only after the queue is closed
\* and drained, the writer idle, and the sink of every enqueued entry
\* closed.
SinkDiscipline ==
    /\ Cardinality(OpenSinks) <= 1
    /\ OpenSinks \subseteq {currentWriter}
    /\ currentWriteOpChan # Nil => OpenSinks = {}
    /\ CentralWritten =>
          /\ writeOpsClosed
          /\ writeOps = << >>
          /\ currentWriteOpChan = Nil
          /\ currentReaders = Nil
          /\ currentReader = Nil
          /\ \A e \in EntIds : EventsOf("close", e) # {}

\* the writer holds the next promise after it has closed the sink of an
\* entry written in blocks and the sink of an entry without payload
SinkClosedBeforeNextPromise ==
    /\ currentWriteOpChan # Nil
    /\ \E e \in EntIds : /\ ents[e].kind = "large"
                         /\ EventsOf("close", e) # {}
    /\ \E e \in EntIds : /\ ents[e].readers = "nil"
                         /\ EventsOf("close", e) # {}

\* ---------------------------------------------------------------------
\* C21  File handle lifetime on the large-file path
\* ---------------------------------------------------------------------

\* the handle of large entry e was opened and has been closed
HandleClosed(e) ==
    ~ents[e].fopen /\ ents[e].task # "none"

\* the CRC task and every block worker of large entry e have returned
TasksCompleted(e) ==
    /\ ents[e].readers = "closed"
    /\ ents[e].task \in {"done", "failed"}
    /\ \A b \in BlkIds :
         blks[b].ent = e =>
           blks[b].st \in {"posted", "taken", "copied", "dead"}

\* C21 as stated: the handle of a multi-block entry is closed only after
\* its CRC task and all its block workers have completed, and a run without
\* errors does not end before the handle is closed.
HandleClosedAfterTasksAndBeforeExit ==
    /\ \A e \in LargeEntries : HandleClosed(e) => TasksCompleted(e)
    /\ (proc = "exit0" /\ ~ioFailed) =>
          \A e \in LargeEntries : HandleClosed(e)

\* C21 as amended: the handle of a multi-block entry is closed only after
\* its CRC task and all its block workers have completed, so that no task
\* reads from a closed handle (the process may end before the closer has
\* closed it).
HandleClosedOnlyAfterTasks ==
    \A e \in LargeEntries :
      HandleClosed(e) =>
        /\ TasksCompleted(e)
        /\ ents[e].wg = 0

\* the closer has closed the handle of an entry of several blocks while
\* the process is running
HandleOfBlocksClosed ==
    /\ Running
    /\ \E e \in LargeEntries :
         /\ HandleClosed(e)
         /\ Cardinality({b \in BlkIds : blks[b].ent = e}) >= 2

\* ---------------------------------------------------------------------
\* C22  Credits precede releases
\* ---------------------------------------------------------------------

\* the promise of entry e has been sent on z.writeOps
Queued(e) ==
    \/ \E i \in 1..Len(writeOps) : writeOps[i] = e
    \/ currentWriteOpChan = e
    \/ ents[e].hdr = "taken"

\* the writer can come to receive the buffer of block b: the promise of its
\* entry is queued and holds the zipEntry, and the buffer is on its channel
ReachableByWriter(b) ==
    /\ blks[b].st = "posted"
    /\ Queued(blks[b].ent)
    /\ ents[blks[b].ent].hdr \in {"ready", "taken"}

RECURSIVE CreditedBytesUpTo(_)
\* the bytes of the buffers among the first b that have been credited and
\* not copied to a sink
CreditedBytesUpTo(b) ==
    IF b = 0 THEN 0
    ELSE CreditedBytesUpTo(b - 1)
           + (IF blks[b].credited /\ blks[b].st # "copied"
              THEN blks[b].buf.n ELSE 0)

\* C22: the pending bytes are never negative and are the bytes of the
\* buffers credited and not yet copied to a sink; a buffer the writer can
\* reach, or has received, has been credited.
CreditPrecedesRelease ==
    /\ pending >= 0
    /\ pending = CreditedBytesUpTo(Len(blks))
    /\ \A b \in BlkIds :
         (ReachableByWriter(b) \/ blks[b].st \in {"taken", "copied"})
           => blks[b].credited

\* a block worker has credited its buffer and not yet sent it, while the
\* writer has already copied and released another buffer
CreditedBeforeSent ==
    /\ \E b \in BlkIds : blks[b].st = "held" /\ blks[b].credited
    /\ \E b \in BlkIds : blks[b].st = "copied"
    /\ pending > 0

\* ---------------------------------------------------------------------
\* C23  Every execution is finished
\* ---------------------------------------------------------------------

\* the tasks that have been handed an execution and have not returned
LiveTasks ==
    {<<"ent", e>> : e \in {x \in EntIds :
        ents[x].task \in {"crc", "computed", "compress", "send", "senderr",
                          "nilbuf"}}}
    \cup {<<"blk", b>> : b \in {x \in BlkIds :
        /\ ents[blks[x].ent].kind = "large"
        /\ blks[x].st \in {"running", "held", "senderr"}}}

\* C23: every execution granted is finished by the task it was handed to,
\* on every path: once all tasks have returned no execution is active.
ExecutionsFinished ==
    LiveTasks = {} => active = 0

====
